---- MODULE Spec2Model ----
(***************************************************************************)
(* The Orienteering Problem environment of rl4co (src/rl4co/envs/op.py):   *)
(* OPEnv.__init__, _reset, _step and get_reward, over a batch of           *)
(* instances, driven by a policy rollout (models/zoo/am/policy.py).        *)
(*                                                                         *)
(* Numbers.  The code computes in float32.  The model computes exactly, in *)
(* integers, on inputs where float32 is exact too:                         *)
(*   - coordinates and lengths are in units of 1/max_loc of the code's     *)
(*     unit square, and node positions come from a lattice whose pairwise  *)
(*     Euclidean distances are all integers (multiples of 3-4-5 and        *)
(*     5-12-13 triangles), so that norm(p=2) has no rounding to model;     *)
(*   - prizes are in units of half the code's 1e-5 threshold, so that a    *)
(*     prize between 0 and 1e-5 is representable.                          *)
(* Tensors are functions: a batched tensor is a function of the batch      *)
(* index, a per-node tensor a function of the node index 0..N (0 = depot). *)
(***************************************************************************)
EXTENDS Integers, Sequences, FiniteSets, TLC

VARIABLES
    env,        \* the OPEnv object: num_loc, length_capacity
    inst,       \* the Instance TensorDict handed to _reset (locs, depot, prize)
    td,         \* the state TensorDict returned by _reset / the last _step
    actions,    \* the rollout's action record, [batch -> sequence of nodes]
    out,        \* outcome of the get_reward call, or NoCall
    pc,         \* "start" | "error" | "constructed" | "reset" | "stepped" | "rewarded"
    td_in       \* the TensorDict handed to the last _step, as it reads after the call

vars == <<env, inst, td, actions, out, pc, td_in>>

----------------------------------------------------------------------------
(* Bounds of the model *)

\* number of non-depot nodes of an instance
MaxNodes == 2

\* longest rollout of a mask-respecting policy
MaxSteps == 3

\* longest rollout of a policy that ignores the mask
MaxAnySteps == 2

----------------------------------------------------------------------------
(* Units and constants of the code *)

\* max_loc = 1, i.e. 12 lattice units
max_loc == 12

\* the tolerance 1e-5 is 1 / TolDen
TolDen == 100000

\* prize units per 1.0: one unit is half of 1e-5
PrizeScale == 2 * TolDen

\* the threshold 1e-5 of the reset mask, in prize units
PrizeEps == PrizeScale \div TolDen

\* MAX_LENGTHS = {20: 2.0, 50: 3.0, 100: 4.0}, in lattice units
MAX_LENGTHS == (20 :> 2 * max_loc) @@ (50 :> 3 * max_loc) @@ (100 :> 4 * max_loc)

\* float("-inf")
NegInf == "-inf"

----------------------------------------------------------------------------
(* Geometry *)

\* lattice points of [0, max_loc]^2 with integer pairwise distances
Points == {<<0, 0>>, <<5, 0>>, <<9, 0>>, <<0, 12>>}

\* floor of the square root
Isqrt(k) == CHOOSE r \in 0 .. 2 * max_loc : r * r <= k /\ k < (r + 1) * (r + 1)

\* (p - q).norm(p=2, dim=-1), tabulated over the lattice
NormTable ==
    [p \in Points |-> [q \in Points |->
        Isqrt((p[1] - q[1]) * (p[1] - q[1]) + (p[2] - q[2]) * (p[2] - q[2]))]]

\* (p - q).norm(p=2, dim=-1)
Abs(x) == IF x < 0 THEN 0 - x ELSE x

\* (p - q).norm(p=2, dim=-1); two points of one horizontal line are |dx| apart
Norm(p, q) == IF p[2] = q[2] THEN Abs(p[1] - q[1]) ELSE NormTable[p][q]

\* sum of a sequence of numbers (Tensor.sum)
RECURSIVE SumSeq(_)
SumSeq(s) == IF s = <<>> THEN 0 ELSE Head(s) + SumSeq(Tail(s))

\* sum of a per-node tensor over its node index
RECURSIVE SumOver(_, _)
SumOver(f, S) ==
    IF S = {} THEN 0
    ELSE LET v == CHOOSE x \in S : TRUE IN f[v] + SumOver(f, S \ {v})

\* torch.count_nonzero(mask, dim=-1) of one batch element
CountNonzero(m) == Cardinality({v \in DOMAIN m : m[v]})

----------------------------------------------------------------------------
(* OPEnv.__init__ *)

\* a lookup that falls back to the capacity of 20 nodes (dict.get with a default)
DictGet_Default(d, k) ==
    IF k \in DOMAIN d THEN [ok |-> TRUE, value |-> d[k]]
    ELSE [ok |-> TRUE, value |-> d[20]]

\* d[k]: the value, or a KeyError
DictGet(d, k) ==
    IF k \in DOMAIN d THEN [ok |-> TRUE, value |-> d[k]]
    ELSE [ok |-> FALSE, value |-> "KeyError"]

\* the object once __init__ has returned
OPEnv(num_loc) == [num_loc |-> num_loc, length_capacity |-> MAX_LENGTHS[num_loc]]

----------------------------------------------------------------------------
(* OPEnv._reset *)

\* observation = cat(depot, locs): node 0 is the depot
Observation(itd) ==
    [b \in DOMAIN itd.prize |->
        [v \in 0 .. Len(itd.locs[b]) |->
            IF v = 0 THEN itd.depot[b] ELSE itd.locs[b][v]]]

\* prize = cat(zeros, prize): the depot carries prize 0
PrizeWithDepot(itd) ==
    [b \in DOMAIN itd.prize |->
        [v \in 0 .. Len(itd.prize[b]) |->
            IF v = 0 THEN 0 ELSE itd.prize[b][v]]]

\* length_to_depot = (observation - depot).norm()
LengthToDepot(observation, itd) ==
    [b \in DOMAIN observation |->
        [v \in DOMAIN observation[b] |-> Norm(observation[b][v], itd.depot[b])]]

\* a reset mask that forgets the way back to the depot
ResetMask_NoReturnLeg(prize, observation, length_to_depot, current_node, length_capacity) ==
    [b \in DOMAIN prize |->
        [v \in DOMAIN prize[b] |->
            /\ prize[b][v] > PrizeEps
            /\ Norm(observation[b][v], observation[b][current_node[b]])
                 <= length_capacity[b]]]

\* action_mask = (prize > 1e-5) & (length_to_next_node + length_to_depot <= length_capacity)
ResetMask(prize, observation, length_to_depot, current_node, length_capacity) ==
    [b \in DOMAIN prize |->
        [v \in DOMAIN prize[b] |->
            /\ prize[b][v] > PrizeEps
            /\ Norm(observation[b][v], observation[b][current_node[b]])
                 + length_to_depot[b][v] <= length_capacity[b]]]

_reset(self, itd) ==
    LET B == DOMAIN itd.prize
        observation == Observation(itd)
        prize == PrizeWithDepot(itd)
        current_node == [b \in B |-> 0]
        length_capacity == [b \in B |-> self.length_capacity]
        length_to_depot == LengthToDepot(observation, itd)
        action_mask ==
            ResetMask(prize, observation, length_to_depot, current_node, length_capacity)
    IN  [locs |-> observation,
         length_capacity |-> length_capacity,
         length_to_depot |-> length_to_depot,
         current_node |-> current_node,
         prize |-> prize,
         prize_collect |-> [b \in B |-> 0],
         action_mask |-> action_mask]

----------------------------------------------------------------------------
(* OPEnv._step *)

\* prize_collect += gather(prize, current_node)
CollectPrize(prize_collect, prize, current_node) ==
    [b \in DOMAIN prize |-> prize_collect[b] + prize[b][current_node[b]]]

\* a step that forgets to zero the collected prize
ZeroPrize_Forgotten(prize, current_node) == prize

\* a step that sets the visited node's prize to -1
ZeroPrize_MinusOne(prize, current_node) ==
    [b \in DOMAIN prize |-> [prize[b] EXCEPT ![current_node[b]] = 0 - PrizeScale]]

\* prize.scatter_(-1, current_node, 0)
ZeroPrize(prize, current_node) ==
    [b \in DOMAIN prize |-> [prize[b] EXCEPT ![current_node[b]] = 0]]

\* a step that measures the leg from the depot instead of the pre-step node
UseCapacity_FromDepot(length_capacity, locs, from_node, current_node) ==
    [b \in DOMAIN locs |->
        length_capacity[b] - Norm(locs[b][current_node[b]], locs[b][0])]

\* a capacity that is not charged for the leg into the depot
UseCapacity_FreeReturn(length_capacity, locs, from_node, current_node) ==
    [b \in DOMAIN locs |->
        IF current_node[b] = 0 THEN length_capacity[b]
        ELSE length_capacity[b] - Norm(locs[b][current_node[b]], locs[b][from_node[b]])]

\* length_capacity -= (locs[action] - locs[td.current_node]).norm()
UseCapacity(length_capacity, locs, from_node, current_node) ==
    [b \in DOMAIN locs |->
        length_capacity[b] - Norm(locs[b][current_node[b]], locs[b][from_node[b]])]

\* a step mask that forgets the prize test
StepMask_NoPrizeTest(prize, locs, length_to_depot, current_node, length_capacity) ==
    [b \in DOMAIN prize |->
        [v \in DOMAIN prize[b] |->
            Norm(locs[b][v], locs[b][current_node[b]])
                + length_to_depot[b][v] <= length_capacity[b]]]

\* a step mask that forgets the way back to the depot
StepMask_NoReturnLeg(prize, locs, length_to_depot, current_node, length_capacity) ==
    [b \in DOMAIN prize |->
        [v \in DOMAIN prize[b] |->
            /\ prize[b][v] > 0
            /\ Norm(locs[b][v], locs[b][current_node[b]]) <= length_capacity[b]]]

\* action_mask = (prize > 0) & (length_to_next_node + length_to_depot <= length_capacity)
StepMask(prize, locs, length_to_depot, current_node, length_capacity) ==
    [b \in DOMAIN prize |->
        [v \in DOMAIN prize[b] |->
            /\ prize[b][v] > 0
            /\ Norm(locs[b][v], locs[b][current_node[b]])
                 + length_to_depot[b][v] <= length_capacity[b]]]

\* a done test that is off by one
Done_OffByOne(action_mask) ==
    [b \in DOMAIN action_mask |-> CountNonzero(action_mask[b]) <= 1]

\* a done test that counts over the whole batch (count_nonzero without dim)
Done_WholeBatch(action_mask) ==
    [b \in DOMAIN action_mask |->
        \A x \in DOMAIN action_mask : CountNonzero(action_mask[x]) * TolDen <= 1]

\* done = count_nonzero(action_mask, dim=-1) <= 1e-5
Done(action_mask) ==
    [b \in DOMAIN action_mask |-> CountNonzero(action_mask[b]) * TolDen <= 1]

\* action_mask[..., 0] = action_mask[..., 0] | done
ForceDepot(action_mask, done) ==
    [b \in DOMAIN action_mask |->
        [action_mask[b] EXCEPT ![0] = action_mask[b][0] \/ done[b]]]

\* a reward that is the sentinel only until the episode is done
SentinelReward_UntilDone(done) ==
    [b \in DOMAIN done |-> IF done[b] THEN "collected" ELSE NegInf]

\* reward = torch.ones_like(done) * float("-inf")
SentinelReward(done) == [b \in DOMAIN done |-> NegInf]

\* the "next" entry of the TensorDict _step returns
_step(t, action) ==
    LET current_node == action
        prize_collect == CollectPrize(t.prize_collect, t.prize, current_node)
        prize == ZeroPrize(t.prize, current_node)
        length_capacity ==
            UseCapacity(t.length_capacity, t.locs, t.current_node, current_node)
        mask == StepMask(prize, t.locs, t.length_to_depot, current_node, length_capacity)
        done == Done(mask)
        action_mask == ForceDepot(mask, done)
    IN  [locs |-> t.locs,
         length_capacity |-> length_capacity,
         length_to_depot |-> t.length_to_depot,
         current_node |-> current_node,
         prize |-> prize,
         prize_collect |-> prize_collect,
         action_mask |-> action_mask,
         reward |-> SentinelReward(done),
         done |-> done]

\* a step that works on copies of the input's tensors
InputAfterStep_Cloned(t, next) == t

\* the TensorDict handed to _step, read after the call: prize_collect (+=),
\* prize (scatter_) and length_capacity (-=) are updated in place, and the
\* "next" entry holds these same tensors; its other entries are new tensors
InputAfterStep(t, next) ==
    [k \in DOMAIN t |->
        IF k \in {"prize", "prize_collect", "length_capacity"} THEN next[k] ELSE t[k]]

\* a reset that keeps the Instance's prize tensor as the state's
SharedWithInstance_Prize == {"prize"}

\* the state tensors that are views of the Instance's tensors: none, since
\* torch.cat and torch.full allocate new tensors
SharedWithInstance == {}

\* the Instance handed to _reset, read after a later _step on the state
InstanceAfterStep(itd, next) ==
    [k \in DOMAIN itd |->
        IF k \in SharedWithInstance /\ k \in DOMAIN next
        THEN [b \in DOMAIN itd[k] |->
                 [v \in DOMAIN itd[k][b] |-> next[k][b][v]]]
        ELSE itd[k]]

----------------------------------------------------------------------------
(* OPEnv.get_reward *)

\* actions.sort(1)[0], one batch element
SortedActions(a) == SortSeq(a, LAMBDA x, y : x < y)

\* a duplicate check that does not excuse the depot
NoDuplicates_DepotToo(acts) ==
    \A b \in DOMAIN acts :
        LET s == SortedActions(acts[b])
        IN  \A i \in 2 .. Len(s) : s[i] > s[i - 1]

\* (sorted[:, 1:] == 0) | (sorted[:, 1:] > sorted[:, :-1]), .all() over the batch
NoDuplicates(acts) ==
    \A b \in DOMAIN acts :
        LET s == SortedActions(acts[b])
        IN  \A i \in 2 .. Len(s) : s[i] = 0 \/ s[i] > s[i - 1]

\* d = locs.gather(1, actions); legs + depot to first + last to depot
TourLength(locs, a) ==
    LET d == [i \in 1 .. Len(a) |-> locs[a[i]]]
    IN  SumSeq([i \in 1 .. Len(a) - 1 |-> Norm(d[i + 1], d[i])])
          + Norm(d[1], locs[0])
          + Norm(d[Len(a)], locs[0])

\* a budget check against the state's remaining capacity
WithinLength_Remaining(self, t, acts) ==
    \A b \in DOMAIN acts :
        TourLength(t.locs[b], acts[b]) * TolDen <= t.length_capacity[b] * TolDen + max_loc

\* (length <= self.length_capacity + 1e-5).all()
WithinLength(self, t, acts) ==
    \A b \in DOMAIN acts :
        TourLength(t.locs[b], acts[b]) * TolDen <= self.length_capacity * TolDen + max_loc

\* the outcome of get_reward: the assertion that fails, or the value returned
get_reward(self, t, acts) ==
    IF ~NoDuplicates(acts) THEN [status |-> "Duplicates", reward |-> <<>>]
    ELSE IF ~WithinLength(self, t, acts)
         THEN [status |-> "Max length exceeded", reward |-> <<>>]
         ELSE [status |-> "ok", reward |-> t.prize_collect]

----------------------------------------------------------------------------
(* OPEnv.generate_data *)

\* the largest number of a non-empty finite set (Tensor.max)
MaxOf(S) == CHOOSE x \in S : \A y \in S : y <= x

\* significand bits of torch.float32, the default dtype
F32Bits == 24

\* x / y rounded to the nearest integer, ties to even
RoundHalfEven(x, y) ==
    LET q == x \div y
        r == x % y
    IN  IF 2 * r < y THEN q
        ELSE IF 2 * r > y THEN q + 1
        ELSE IF q % 2 = 0 THEN q ELSE q + 1

\* float32 quotient a / b of two floats with 0 <= a <= b, b > 0, given on a
\* common binary grid; the float m / 2^e
F32Div(a, b) ==
    IF a = 0 THEN [m |-> 0, e |-> 0]
    ELSE LET k == CHOOSE i \in 0 .. F32Bits : a * 2 ^ i >= b /\ (i = 0 \/ a * 2 ^ (i - 1) < b)
             e == F32Bits - 1 + k
         IN  [m |-> RoundHalfEven(a * 2 ^ e, b), e |-> e]

\* float32 product of the float x and the small integer c
F32Mul(x, c) ==
    LET p == x.m * c
        s == CHOOSE i \in 0 .. F32Bits : p \div 2 ^ i < 2 ^ F32Bits
                                          /\ (i = 0 \/ p \div 2 ^ (i - 1) >= 2 ^ F32Bits)
    IN  [m |-> RoundHalfEven(p, 2 ^ s), e |-> x.e - s]

\* Tensor.int() of a non-negative float: truncation
F32Int(x) == x.m \div 2 ^ x.e

\* a prize that rounds to the nearest tier instead of truncating
GenPrize_Rounded(d, dmax) == (1 + RoundHalfEven(d * 99, dmax)) * (PrizeScale \div 100)

\* (1 + (prize_ / prize_.max() * 99).int()).float() / 100, in prize units
GenPrize(d, dmax) == (1 + F32Int(F32Mul(F32Div(d, dmax), 99))) * (PrizeScale \div 100)

\* one batch element of generate_data from its drawn locs (0 = depot)
GenerateInstance(pts) ==
    LET n == Cardinality(DOMAIN pts) - 1
        prize_ == [v \in 1 .. n |-> Norm(pts[0], pts[v])]
        dmax == MaxOf({prize_[v] : v \in 1 .. n})
    IN  [depot |-> pts[0],
         locs |-> [v \in 1 .. n |-> pts[v]],
         prize |-> [v \in 1 .. n |-> GenPrize(prize_[v], dmax)]]

----------------------------------------------------------------------------
(* Inputs *)

\* where an instance's depot may lie
DepotChoices == {<<0, 0>>, <<0, 12>>}

\* where an instance's nodes may lie
NodePoints == {<<5, 0>>, <<9, 0>>, <<0, 12>>}

\* one of the 100 prize tiers, k / 100
Tier(k) == k * (PrizeScale \div 100)

\* a prize of 0.000005: positive, and below the reset threshold
SubEps == PrizeEps \div 2

\* one batch element's Instance; node v's prize is SubEps or the tier v / 100
Instances ==
    {[depot |-> d, locs |-> l, prize |-> [v \in 1 .. MaxNodes |-> IF v \in S THEN Tier(v) ELSE SubEps]] :
        d \in DepotChoices, l \in [1 .. MaxNodes -> NodePoints], S \in SUBSET (1 .. MaxNodes)}

\* a few instances to share a batch with any other instance
Companions ==
    {i \in Instances :
        /\ \A v \in 1 .. MaxNodes : i.locs[v] = IF v % 2 = 1 THEN <<5, 0>> ELSE <<9, 0>>
        /\ \A v \in 1 .. MaxNodes : i.prize[v] = Tier(v)}

\* the batched Instance TensorDict of a tuple of instances
InstanceTd(is) ==
    [locs |-> [b \in DOMAIN is |-> is[b].locs],
     depot |-> [b \in DOMAIN is |-> is[b].depot],
     prize |-> [b \in DOMAIN is |-> is[b].prize]]

\* the batches a mask-respecting rollout is run on
ResetInputs ==
    {InstanceTd(<<i, c>>) : i \in Instances, c \in Companions}
      \cup {InstanceTd(<<c, i>>) : i \in Instances, c \in Companions}

\* the batches an unconstrained rollout is run on
AnyInputs == {InstanceTd(<<c1, c2>>) : c1 \in Companions, c2 \in Companions}

\* the draws of locs generate_data may make for one element; a draw with every
\* node on the depot (0 / 0 in the prize) is left out
Draws ==
    {pts \in [0 .. MaxNodes -> Points] : \E v \in 1 .. MaxNodes : pts[v] # pts[0]}

\* a few draws to share a batch with any other draw
CompanionDraws ==
    {pts \in Draws :
        /\ pts[0] \in DepotChoices
        /\ \A v \in 1 .. MaxNodes : pts[v] = IF v % 2 = 1 THEN <<5, 0>> ELSE <<9, 0>>}

\* the batches generate_data may return
GeneratedInputs ==
    {InstanceTd(<<GenerateInstance(p), GenerateInstance(c)>>) :
        p \in Draws, c \in CompanionDraws}
      \cup {InstanceTd(<<GenerateInstance(c), GenerateInstance(p)>>) :
        p \in Draws, c \in CompanionDraws}

\* x coordinates, in units of 1 / 128, of the draws generate_data is called
\* alone on: depot and nodes on one horizontal line
GridCoords == {0, 7, 28, 64, 99}

GridDraws ==
    {pts \in [0 .. MaxNodes -> {<<x, 0>> : x \in GridCoords}] :
        \E v \in 1 .. MaxNodes : pts[v] # pts[0]}

GridCompanionDraws ==
    {pts \in GridDraws :
        /\ pts[0] = <<0, 0>>
        /\ \E x \in {64, 99} : \A v \in 1 .. MaxNodes : pts[v] = <<x, 0>>}

\* the batches generate_data may return on these draws
GridInputs ==
    {InstanceTd(<<GenerateInstance(p), GenerateInstance(c)>>) :
        p \in GridDraws, c \in GridCompanionDraws}
      \cup {InstanceTd(<<GenerateInstance(c), GenerateInstance(p)>>) :
        p \in GridDraws, c \in GridCompanionDraws}

NoCall == [status |-> "none", reward |-> <<>>]

\* the node indices of the state's instances
NodeIdx == 0 .. MaxNodes

\* the actions the policy may sample for the batch: one masked-in node each
LegalActions(t) ==
    {a \in [DOMAIN t.action_mask -> NodeIdx] :
        \A b \in DOMAIN a : t.action_mask[b][a[b]]}

----------------------------------------------------------------------------
(* The state machine *)

Init ==
    /\ env \in {OPEnv(n) : n \in DOMAIN MAX_LENGTHS}
    /\ inst = <<>>
    /\ td = <<>>
    /\ actions = <<>>
    /\ out = NoCall
    /\ pc = "constructed"
    /\ td_in = <<>>

\* the node counts OPEnv is constructed with; 10 is the default of num_loc
NumLocArgs == {10, 20, 21, 50, 100}

\* OPEnv(num_loc=n) has been called: self.num_loc is set, self.length_capacity not yet
InitStart ==
    /\ env \in {[num_loc |-> n] : n \in NumLocArgs}
    /\ inst = <<>>
    /\ td = <<>>
    /\ actions = <<>>
    /\ out = NoCall
    /\ pc = "start"
    /\ td_in = <<>>

\* self.length_capacity = MAX_LENGTHS[num_loc] finds its entry: __init__ returns
ConstructOk ==
    /\ pc = "start"
    /\ DictGet(MAX_LENGTHS, env.num_loc).ok
    /\ env' = [num_loc |-> env.num_loc,
               length_capacity |-> DictGet(MAX_LENGTHS, env.num_loc).value]
    /\ pc' = "constructed"
    /\ UNCHANGED <<inst, td, actions, out, td_in>>

\* self.length_capacity = MAX_LENGTHS[num_loc] raises: the caller gets no object
ConstructFail ==
    /\ pc = "start"
    /\ ~DictGet(MAX_LENGTHS, env.num_loc).ok
    /\ pc' = "error"
    /\ UNCHANGED <<env, inst, td, actions, out, td_in>>

ResetFrom(inputs) ==
    /\ pc = "constructed"
    /\ \E itd \in inputs :
        /\ inst' = itd
        /\ td' = _reset(env, itd)
        /\ actions' = [b \in DOMAIN itd.prize |-> <<>>]
    /\ pc' = "reset"
    /\ UNCHANGED <<env, out, td_in>>

Reset == ResetFrom(ResetInputs)

\* _reset(td=None): the instance comes from generate_data
ResetGenerated == ResetFrom(GeneratedInputs)

ResetAny == ResetFrom(AnyInputs)

StepWith(action) ==
    /\ td' = _step(td, action)
    /\ td_in' = InputAfterStep(td, _step(td, action))
    /\ inst' = InstanceAfterStep(inst, _step(td, action))
    /\ actions' = [b \in DOMAIN actions |-> Append(actions[b], action[b])]
    /\ pc' = "stepped"
    /\ UNCHANGED <<env, out>>

\* one decoding step of a policy that samples under the mask
Step ==
    /\ pc \in {"reset", "stepped"}
    /\ \A b \in DOMAIN actions : Len(actions[b]) < MaxSteps
    /\ \E action \in LegalActions(td) : StepWith(action)

\* one decoding step of a caller that ignores the mask
StepAny ==
    /\ pc \in {"reset", "stepped"}
    /\ \A b \in DOMAIN actions : Len(actions[b]) < MaxAnySteps
    /\ \E action \in [DOMAIN actions -> NodeIdx] : StepWith(action)

\* env.get_reward(td, actions) on the rollout's record
GetReward ==
    /\ pc = "stepped"
    /\ out' = get_reward(env, td, actions)
    /\ pc' = "rewarded"
    /\ UNCHANGED <<env, inst, td, actions, td_in>>

Next == Reset \/ Step \/ GetReward

Spec == Init /\ [][Next]_vars

\* generate_data(batch_size) called on its own
GenerateData ==
    /\ pc = "constructed"
    /\ inst' \in GridInputs
    /\ pc' = "generated"
    /\ UNCHANGED <<env, td, actions, out, td_in>>

SpecGen == Init /\ [][GenerateData]_vars

\* construction, then a rollout on generated data
NextLife == ConstructOk \/ ConstructFail \/ ResetGenerated \/ Step \/ GetReward

SpecLife == InitStart /\ [][NextLife]_vars

NextAny == ResetAny \/ StepAny \/ GetReward

SpecAny == Init /\ [][NextAny]_vars

----------------------------------------------------------------------------
(* Vocabulary of the properties *)

\* a state TensorDict exists: _reset has returned
HasState == pc \in {"reset", "stepped", "rewarded"}

\* the state is one _step returned
Stepped == pc \in {"stepped", "rewarded"}

\* distance(current_node, v) + length_to_depot[v] <= remaining capacity
RoundTripFits(b, v) ==
    Norm(td.locs[b][td.current_node[b]], td.locs[b][v]) + td.length_to_depot[b][v]
        <= td.length_capacity[b]

\* the non-depot nodes
NonDepot == NodeIdx \ {0}

\* the state after the first k recorded actions, replayed from the instance
RECURSIVE StateAfter(_)
StateAfter(k) ==
    IF k = 0 THEN _reset(env, inst)
    ELSE _step(StateAfter(k - 1), [b \in DOMAIN actions |-> actions[b][k]])

\* every recorded action of element b was masked-in when it was taken
MaskRespecting(b) ==
    \A k \in 1 .. Len(actions[b]) : StateAfter(k - 1).action_mask[b][actions[b][k]]

\* the edge lengths element b has travelled: depot to first, then the consecutive legs
Travelled(b) ==
    LET path == <<0>> \o actions[b]
    IN  SumSeq([i \in 1 .. Len(actions[b]) |->
                   Norm(td.locs[b][path[i]], td.locs[b][path[i + 1]])])

\* how often node v occurs among the recorded actions of element b
Occurrences(b, v) == Cardinality({i \in 1 .. Len(actions[b]) : actions[b][i] = v})

----------------------------------------------------------------------------
(* C1  Mask soundness *)

\* C1 as stated: every masked-in node has a positive prize and a round trip
\* that fits the remaining capacity, and no zero-prize node, the depot
\* included, is ever masked-in.
C1_MaskSoundnessAsStated ==
    HasState =>
        \A b \in DOMAIN td.prize : \A v \in NodeIdx :
            /\ td.action_mask[b][v] => td.prize[b][v] > 0 /\ RoundTripFits(b, v)
            /\ td.prize[b][v] = 0 => ~td.action_mask[b][v]

\* C1 amended: under a mask-respecting rollout, every masked-in non-depot node
\* has a positive prize and a round trip that fits the remaining capacity; no
\* zero-prize non-depot node is masked-in; the depot (prize 0) is masked-in
\* exactly in the states a step returned with done, and its return leg fits.
C1_MaskSoundness ==
    HasState =>
        \A b \in DOMAIN td.prize :
            /\ \A v \in NonDepot :
                /\ td.action_mask[b][v] => td.prize[b][v] > 0 /\ RoundTripFits(b, v)
                /\ td.prize[b][v] = 0 => ~td.action_mask[b][v]
            /\ td.action_mask[b][0] <=> (Stepped /\ td.done[b])
            /\ td.action_mask[b][0] => RoundTripFits(b, 0)
            /\ td.prize[b][0] = 0

\* a step returned a state where one element still has a collectible node
\* masked-in and another has the depot forced in
C1_Witness ==
    /\ pc = "stepped"
    /\ \E b \in DOMAIN td.prize : \E v \in NonDepot : td.action_mask[b][v]
    /\ \E b \in DOMAIN td.prize : td.action_mask[b][0]

----------------------------------------------------------------------------
(* C2  Depot-forced termination *)

\* C2: in every state returned by reset or step, if no non-depot node is
\* masked-in then the depot is, so the mask is never all-false.
C2_DepotForced ==
    HasState =>
        \A b \in DOMAIN td.prize :
            (\A v \in NonDepot : ~td.action_mask[b][v]) => td.action_mask[b][0]

----------------------------------------------------------------------------
(* C3  Exclusivity *)

\* the original prizes of the distinct non-depot nodes among the actions of b
VisitedPrize(b) ==
    SumOver([v \in NodeIdx |-> IF v # 0 /\ Occurrences(b, v) > 0
                                 THEN inst.prize[b][v] ELSE 0], NodeIdx)

\* C3: after reset and any sequence of steps, prize_collect is the sum of the
\* original prizes of the distinct non-depot nodes among the actions (a node
\* visited again adds nothing), prize_collect plus the remaining prizes is the
\* instance's total prize, and get_reward returns exactly prize_collect.
C3_Exclusivity ==
    HasState =>
        \A b \in DOMAIN td.prize :
            /\ td.prize_collect[b] = VisitedPrize(b)
            /\ td.prize_collect[b] + SumOver(td.prize[b], NodeIdx)
                 = SumSeq(inst.prize[b])
            /\ out.status = "ok" => out.reward[b] = VisitedPrize(b)

\* a rollout visited a prize-bearing node twice
C3_Witness ==
    /\ pc = "stepped"
    /\ \E b \in DOMAIN td.prize : \E v \in NonDepot :
        Occurrences(b, v) >= 2 /\ td.prize_collect[b] >= Tier(1)

----------------------------------------------------------------------------
(* C4  Validation agrees with masking *)

\* C4: along a mask-respecting rollout (depot actions after done included) the
\* remaining capacity always covers the way back to the depot, and get_reward
\* on the recorded actions passes both checks.
C4_ValidationAgrees ==
    HasState =>
        /\ \A b \in DOMAIN td.prize :
            td.length_capacity[b] >= td.length_to_depot[b][td.current_node[b]]
        /\ pc = "rewarded" => out.status = "ok"

\* get_reward was called on a rollout in which an element collected a node,
\* was done, and then took the forced depot action
C4_Witness ==
    /\ pc = "rewarded"
    /\ \E b \in DOMAIN td.prize : \E i \in 1 .. Len(actions[b]) - 1 :
        /\ actions[b][i] # 0
        /\ actions[b][i + 1] = 0
        /\ td.prize_collect[b] > 0

----------------------------------------------------------------------------
(* C5  Capacity accounting *)

\* C5: after any action sequence the remaining capacity is the capacity
\* constant minus the edge lengths travelled (each step subtracts exactly
\* distance(pre-step current_node, action)), and for an element whose every
\* action was masked-in when taken the remaining capacity is never negative.
C5_CapacityAccounting ==
    HasState =>
        \A b \in DOMAIN td.prize :
            /\ td.length_capacity[b] = env.length_capacity - Travelled(b)
            /\ MaskRespecting(b) => td.length_capacity[b] >= 0

\* in one state, an element that respected the mask over two moves between
\* distinct places, and an element that ignored it and overdrew its capacity
C5_Witness ==
    /\ pc = "stepped"
    /\ \E b \in DOMAIN td.prize :
        /\ MaskRespecting(b)
        /\ Len(actions[b]) >= 2
        /\ actions[b][1] # 0 /\ actions[b][2] # 0
        /\ td.length_capacity[b] < env.length_capacity
    /\ \E b \in DOMAIN td.prize : td.length_capacity[b] < 0

----------------------------------------------------------------------------
(* C6  Done/mask correspondence *)

\* node v is collectible from the state: prize left and the round trip fits
Collectible(b, v) == td.prize[b][v] > 0 /\ RoundTripFits(b, v)

\* C6: after every step, done holds exactly when no non-depot node is
\* collectible; then the mask is depot-only; otherwise the mask holds a
\* non-depot node and not the depot.
C6_DoneMask ==
    Stepped =>
        \A b \in DOMAIN td.prize :
            /\ td.done[b] <=> ~(\E v \in NonDepot : Collectible(b, v))
            /\ td.done[b] =>
                 \A v \in NodeIdx : td.action_mask[b][v] <=> v = 0
            /\ ~td.done[b] =>
                 /\ \E v \in NonDepot : td.action_mask[b][v]
                 /\ ~td.action_mask[b][0]

\* a step left one element done and another with a node to collect
C6_Witness ==
    /\ pc = "stepped"
    /\ \E b \in DOMAIN td.prize : td.done[b]
    /\ \E b \in DOMAIN td.prize : ~td.done[b]

----------------------------------------------------------------------------
(* C7  Reset postcondition *)

\* what C7 says of every field but the mask
ResetFields ==
    \A b \in DOMAIN inst.prize :
        /\ td.current_node[b] = 0
        /\ td.length_capacity[b] = MAX_LENGTHS[env.num_loc]
        /\ td.prize_collect[b] = 0
        /\ td.prize[b] = [v \in NodeIdx |-> IF v = 0 THEN 0 ELSE inst.prize[b][v]]
        /\ td.locs[b][0] = inst.depot[b]
        /\ \A v \in NonDepot : td.locs[b][v] = inst.locs[b][v]
        /\ \A v \in NodeIdx :
            td.length_to_depot[b][v] = Norm(td.locs[b][v], inst.depot[b])

----------------------------------------------------------------------------
(* C8  Duplicate-visit check *)

\* C8: get_reward fails with 'Duplicates' exactly when some non-depot node
\* occurs more than once in an element's action sequence; repeated depot
\* entries never cause the failure.
C8_Duplicates ==
    pc = "rewarded" =>
        (out.status = "Duplicates" <=>
            \E b \in DOMAIN actions : \E v \in NonDepot : Occurrences(b, v) >= 2)

\* get_reward did not fail with 'Duplicates' on a batch in which one sequence
\* repeats the depot and another visits distinct nodes
C8_Witness ==
    /\ pc = "rewarded"
    /\ out.status # "Duplicates"
    /\ \E b \in DOMAIN actions : Occurrences(b, 0) >= 2
    /\ \E b \in DOMAIN actions : \E v \in NonDepot : \E w \in NonDepot :
        v # w /\ Occurrences(b, v) = 1 /\ Occurrences(b, w) = 1

----------------------------------------------------------------------------
(* C9  Budget check *)

\* number of steps taken (the same for every batch element)
RolloutLen == Len(actions[CHOOSE b \in DOMAIN actions : TRUE])

\* depot -> first, consecutive legs, last -> depot exceeds the capacity
\* constant by more than 1e-5
Exceeds(b) ==
    (Travelled(b) + Norm(td.locs[b][actions[b][Len(actions[b])]], td.locs[b][0])) * TolDen
        > MAX_LENGTHS[env.num_loc] * TolDen + max_loc

\* C9: on duplicate-free action sequences get_reward fails with 'Max length
\* exceeded' exactly when some element's reconstructed tour exceeds the
\* capacity constant beyond the tolerance, whatever the remaining capacity
\* and the mask are; otherwise it returns prize_collect, and the state is the
\* one the steps left.
C9_BudgetCheck ==
    (/\ pc = "rewarded"
     /\ \A b \in DOMAIN actions : \A v \in NonDepot : Occurrences(b, v) <= 1) =>
        /\ out.status = "Max length exceeded" <=> \E b \in DOMAIN actions : Exceeds(b)
        /\ out.status # "Max length exceeded" =>
             out.status = "ok" /\ out.reward = td.prize_collect
        /\ td = StateAfter(RolloutLen)

\* get_reward failed with 'Max length exceeded' on a duplicate-free batch in
\* which one tour fits the capacity constant and another does not
C9_Witness ==
    /\ pc = "rewarded"
    /\ out.status = "Max length exceeded"
    /\ \E b \in DOMAIN actions : ~Exceeds(b) /\ ~MaskRespecting(b)
    /\ \E b \in DOMAIN actions : Exceeds(b)

----------------------------------------------------------------------------
(* C10  Batch independence *)

\* a batched tensor, and a TensorDict, cut down to the batch elements S
Restrict(f, S) == [b \in S |-> f[b]]
RestrictTd(t, S) == [k \in DOMAIN t |-> Restrict(t[k], S)]

\* the state of element b had it been reset and stepped as a batch of one
RECURSIVE AloneAfter(_, _)
AloneAfter(b, k) ==
    IF k = 0 THEN _reset(env, RestrictTd(inst, {b}))
    ELSE _step(AloneAfter(b, k - 1), [x \in {b} |-> actions[b][k]])

\* the outcome of get_reward for element b as a batch of one
AloneReward(b) ==
    get_reward(env, AloneAfter(b, Len(actions[b])), Restrict(actions, {b}))

\* C10 as stated: an element's state after reset and steps, and whether
\* get_reward yields its reward, are what they would be without the others.
C10_BatchIndependenceAsStated ==
    HasState =>
        \A b \in DOMAIN td.prize :
            /\ RestrictTd(td, {b}) = AloneAfter(b, Len(actions[b]))
            /\ pc = "rewarded" => (out.status = "ok" <=> AloneReward(b).status = "ok")

\* C10 amended: an element's state after reset and steps is what it would be
\* without the others; get_reward passes or fails for the batch as a whole: it
\* returns exactly when every element alone would pass both checks, and then
\* an element's reward is the one it would get alone.
C10_BatchIndependence ==
    HasState =>
        /\ \A b \in DOMAIN td.prize :
            RestrictTd(td, {b}) = AloneAfter(b, Len(actions[b]))
        /\ pc = "rewarded" =>
            /\ out.status = "ok" <=>
                 \A b \in DOMAIN td.prize : AloneReward(b).status = "ok"
            /\ out.status = "ok" =>
                 \A b \in DOMAIN td.prize : out.reward[b] = AloneReward(b).reward[b]

\* get_reward returned for a batch whose elements are in different states
\* after different actions
C10_Witness ==
    /\ pc = "rewarded"
    /\ out.status = "ok"
    /\ \E b1 \in DOMAIN td.prize : \E b2 \in DOMAIN td.prize :
        /\ td.done[b1] /\ ~td.done[b2]
        /\ actions[b1] # actions[b2]
        /\ out.reward[b1] # out.reward[b2]

----------------------------------------------------------------------------
(* C11  Capacity configuration *)

----------------------------------------------------------------------------
(* C12  Prize generation *)

\* distance of node v of the Instance to its depot, and the largest of them
DepotDistance(b, v) == Norm(inst.locs[b][v], inst.depot[b])
MaxDepotDistance(b) == MaxOf({DepotDistance(b, v) : v \in NonDepot})

\* floor(99 * d / dmax)
Floor99(d, dmax) == CHOOSE k \in 0 .. 99 : k * dmax <= 99 * d /\ 99 * d < (k + 1) * dmax

\* the tier k of a prize k / 100
TierOf(p) == p \div (PrizeScale \div 100)

\* C12 as stated: in a generated instance with positive maximum depot
\* distance every prize is exactly (1 + floor(99 d / dmax)) / 100.
C12_PrizeGenerationAsStated ==
    pc = "generated" =>
        \A b \in DOMAIN inst.prize :
            MaxDepotDistance(b) > 0 =>
                \A v \in NonDepot :
                    inst.prize[b][v] * 100
                      = (1 + Floor99(DepotDistance(b, v), MaxDepotDistance(b))) * PrizeScale

\* C12: in a generated instance with positive maximum depot distance every
\* prize is k / 100 with k in 1..100, where k - 1 is floor(99 d / dmax), or one
\* less when 99 d / dmax is an integer that the float32 product falls short
\* of; a node at distance dmax has prize 1.0; prize is non-decreasing in
\* distance.
C12_PrizeGeneration ==
    pc = "generated" =>
        \A b \in DOMAIN inst.prize :
            MaxDepotDistance(b) > 0 =>
                \A v \in NonDepot :
                    LET d == DepotDistance(b, v)
                        dmax == MaxDepotDistance(b)
                        k == TierOf(inst.prize[b][v])
                    IN  /\ inst.prize[b][v] = Tier(k)
                        /\ k \in 1 .. 100
                        /\ \/ k - 1 = Floor99(d, dmax)
                           \/ k = Floor99(d, dmax) /\ (99 * d) % dmax = 0
                        /\ d = dmax => inst.prize[b][v] = PrizeScale
                        /\ \A w \in NonDepot :
                             d <= DepotDistance(b, w) =>
                                 inst.prize[b][v] <= inst.prize[b][w]

\* a generated instance with a node at the maximum distance, prize 1.0, and
\* a node at 7 / 99 of it whose prize is 0.07
C12_Witness ==
    /\ pc = "generated"
    /\ \E b \in DOMAIN inst.prize : \E v \in NonDepot : \E w \in NonDepot :
        /\ DepotDistance(b, w) = MaxDepotDistance(b)
        /\ inst.prize[b][w] = PrizeScale
        /\ 99 * DepotDistance(b, v) = 7 * MaxDepotDistance(b)
        /\ inst.prize[b][v] = Tier(7)

----------------------------------------------------------------------------
(* C13  Termination *)

\* the number of steps element b has taken
StepsTaken(b) == Len(actions[b])

\* element b is in a state a step returned with done = true
IsDone(b) == Stepped /\ td.done[b]

\* C13: a mask-respecting run from reset reaches done = true within N steps:
\* after N steps the element is done, and until it is done the mask offers an
\* action to take.
C13_Termination ==
    HasState =>
        \A b \in DOMAIN td.prize :
            /\ StepsTaken(b) >= MaxNodes => IsDone(b)
            /\ ~IsDone(b) => \E v \in NodeIdx : td.action_mask[b][v]

----------------------------------------------------------------------------
(* C14  TERMINAL is absorbing *)

\* the mask of element b of t offers the depot and nothing else
DepotOnly(t, b) == \A v \in DOMAIN t.action_mask[b] : t.action_mask[b][v] <=> v = 0

\* C14: a mask-respecting step of an element whose last step returned
\* done = true takes the depot, returns done = true and a depot-only mask
\* again, and leaves prize and prize_collect unchanged.
C14_Absorbing ==
    [][(pc = "stepped" /\ pc' = "stepped") =>
          \A b \in DOMAIN td.done :
              td.done[b] =>
                  /\ td'.current_node[b] = 0
                  /\ td'.done[b]
                  /\ DepotOnly(td', b)
                  /\ td'.prize[b] = td.prize[b]
                  /\ td'.prize_collect[b] = td.prize_collect[b]]_vars

\* an element that was done at a node with something collected has been
\* stepped again, into the depot
C14_Witness ==
    /\ Stepped
    /\ \E b \in DOMAIN td.done :
        /\ StepsTaken(b) >= 2
        /\ actions[b][StepsTaken(b) - 1] # 0
        /\ StateAfter(StepsTaken(b) - 1).done[b]
        /\ actions[b][StepsTaken(b)] = 0
        /\ td.done[b]
        /\ td.prize_collect[b] > 0

----------------------------------------------------------------------------
(* C15  Prize bookkeeping *)

\* the prize vector of element b right after reset
PrizeAtReset(b) == PrizeWithDepot(inst)[b]

\* prize[current_node] = 0, prize[depot] = 0, every prize is 0 or as at reset
PrizeBookkeeping(t) ==
    \A b \in DOMAIN t.prize :
        /\ t.prize[b][t.current_node[b]] = 0
        /\ t.prize[b][0] = 0
        /\ \A v \in DOMAIN t.prize[b] :
             t.prize[b][v] = 0 \/ t.prize[b][v] = PrizeAtReset(b)[v]

----------------------------------------------------------------------------
(* C16  Frame of step and reset *)

\* C16: a step leaves locs and length_to_depot unchanged and changes prize at
\* most at the index of the action; reset returns the initial state of the
\* Instance as it stands after the call, and no step changes the Instance, so
\* another reset from it gives the same initial state.
C16_Frame ==
    [][/\ (HasState /\ HasState') =>
            /\ td'.locs = td.locs
            /\ td'.length_to_depot = td.length_to_depot
            /\ \A b \in DOMAIN td.prize : \A v \in DOMAIN td.prize[b] :
                 v # td'.current_node[b] => td'.prize[b][v] = td.prize[b][v]
            /\ inst' = inst
            /\ _reset(env, inst') = _reset(env, inst)
       /\ (~HasState /\ HasState') => td' = _reset(env, inst')]_vars

\* a step has zeroed a prize in the state while the Instance still holds it,
\* and a reset from the Instance would offer the node again
C16_Witness ==
    /\ Stepped
    /\ \E b \in DOMAIN td.prize : \E v \in NonDepot :
        /\ Occurrences(b, v) > 0
        /\ td.prize[b][v] = 0
        /\ inst.prize[b][v] > 0
        /\ _reset(env, inst).prize[b][v] = inst.prize[b][v]
        /\ _reset(env, inst).action_mask[b][v]

----------------------------------------------------------------------------
(* C17  In-place update of the input state *)

\* the entries _step updates in place
InPlace == {"prize", "prize_collect", "length_capacity"}

\* C17: after a step the TensorDict that was handed to it holds the prize,
\* prize_collect and length_capacity of the returned state, and everything
\* else, current_node and action_mask among it, as before the step.
C17_InPlace ==
    [][(pc \in {"reset", "stepped"} /\ pc' = "stepped") =>
          /\ DOMAIN td_in' = DOMAIN td
          /\ \A k \in InPlace : td_in'[k] = td'[k]
          /\ \A k \in DOMAIN td \ InPlace : td_in'[k] = td[k]]_vars

\* the input of the last step now shows a prize the step zeroed and the prize
\* collected, but still the node and the mask from before the step
C17_Witness ==
    /\ Stepped
    /\ \E b \in DOMAIN td.prize :
        LET before == StateAfter(StepsTaken(b) - 1)
        IN  /\ td_in.prize[b] # before.prize[b]
            /\ td_in.prize[b] = td.prize[b]
            /\ td_in.prize_collect[b] > before.prize_collect[b]
            /\ td_in.length_capacity[b] < before.length_capacity[b]
            /\ td_in.current_node[b] = before.current_node[b]
            /\ td_in.current_node[b] # td.current_node[b]
            /\ td_in.action_mask[b] = before.action_mask[b]
            /\ td_in.action_mask[b] # td.action_mask[b]

----------------------------------------------------------------------------
(* C18  Sentinel reward *)

====
